---- MODULE Spec2Model ----
(***************************************************************************)
(* Model of k800_can_utility.py: the K800 example CAN bus utility.         *)
(*                                                                         *)
(* Strings are sequences of string pieces, so that substring tests         *)
(* (`in`), str() and f-string formatting are computed and not assumed.     *)
(* Optional values (None or a value) are records [some, v].                *)
(* A device path such as /dev/ttyACM3 or COM3 is modelled by its number;   *)
(* the port enumeration sorts by the natural order of the device name.     *)
(***************************************************************************)
EXTENDS Integers, Sequences, FiniteSets, TLC

----------------------------------------------------------------------------
(* Bounds of the model *)

\* at most this many serial ports are attached
MaxPorts == 3
\* the send loop is followed for this many calls of inc_dec_data_string
MaxSends == 20
\* the receive loop is followed for this many received frames
MaxRecvs == 2

----------------------------------------------------------------------------
(* Global variables of the script *)

MCU_VID_PID == <<"3", "5", "3", "F", ":", "A", "1", "0", "1">>
valid_bit_rates == {10, 20, 50, 100, 125, 250, 500, 750, 1000}
DEFAULT_BITRATE == 1000
LED_CHECK == "off"
LED_COUNT == 4
ARBITRATION_ID == 291 \* 0x123

----------------------------------------------------------------------------
(* Python values *)

NoneStr == [some |-> FALSE, v |-> <<>>]
SomeStr(s) == [some |-> TRUE, v |-> s]
NoneDev == [some |-> FALSE, v |-> 0]
SomeDev(d) == [some |-> TRUE, v |-> d]

\* truth value of an optional string: None and '' are false
TruthyStr(o) == o.some /\ o.v # <<>>
\* truth value of an optional device path: a path is never empty
TruthyDev(o) == o.some

\* sub in s, for strings
Contains(s, sub) ==
    \E i \in 0..(Len(s) - Len(sub)) : SubSeq(s, i + 1, i + Len(sub)) = sub

Digit(d) == <<"0", "1", "2", "3", "4", "5", "6", "7", "8", "9">>[d + 1]

\* str(n) for a non-negative integer
RECURSIVE ToStr(_)
ToStr(n) == IF n < 10 THEN <<Digit(n)>> ELSE ToStr(n \div 10) \o <<Digit(n % 10)>>

\* str(status).lower()
LowerBool(b) == IF b THEN <<"true">> ELSE <<"false">>

----------------------------------------------------------------------------
(* get_device_port *)

\* sorted(all_ports): insertion of a port into a list sorted by device
RECURSIVE InsertPort(_, _)
InsertPort(p, ps) ==
    IF ps = <<>> THEN <<p>>
    ELSE IF p.device < Head(ps).device THEN <<p>> \o ps
    ELSE <<Head(ps)>> \o InsertPort(p, Tail(ps))

RECURSIVE sorted(_)
sorted(ps) == IF ps = <<>> THEN <<>> ELSE InsertPort(Head(ps), sorted(Tail(ps)))

\* the for loop of get_device_port over the remaining ports
RECURSIVE ScanPorts(_, _, _)
ScanPorts(ps, dev_id, location) ==
    IF ps = <<>> THEN NoneDev
    ELSE LET port == Head(ps) IN
         IF /\ Contains(port.hwid, dev_id)
            /\ TruthyStr(location)
            /\ Contains(port.location, location.v)
         THEN SomeDev(port.device)
         ELSE ScanPorts(Tail(ps), dev_id, location)

\* a plausible slip: the enumeration is scanned in the order comports()
\* returned it
get_device_port_unsorted(dev_id, location, ports) ==
    ScanPorts(ports, dev_id, location)

get_device_port(dev_id, location, ports) ==
    ScanPorts(sorted(ports), dev_id, location)

----------------------------------------------------------------------------
(* The attached serial ports *)

HwidK800 == <<"V", "I", "D", ":", "P", "I", "D", "=">> \o MCU_VID_PID
HwidOther == <<"V", "I", "D", ":", "P", "I", "D", "=", "3", "5", "3", "F", ":", "A", "1", "0", "0">>
Hwids == {HwidK800, HwidOther}

SigOther == <<"A", "1", "0", "0">>
Signatures == {MCU_VID_PID, SigOther}

LocMgmt == <<"1", "-", "1", ":", "1", ".", "0">>
LocVcan == <<"1", "-", "1", ":", "1", ".", "2">>
LocAux == <<"1", "-", "1", ":", "1", ".", "1">>
\* behind a hub on port 2: the location holds both '.2' and '.0'
LocHub == <<"1", "-", "1", ".", "2", ":", "1", ".", "0">>
Locations == {LocMgmt, LocVcan, LocHub}

FilterMgmt == <<".", "0">>
FilterVcan == <<".", "2">>
LocationArgs == {NoneStr, SomeStr(<<>>), SomeStr(FilterMgmt), SomeStr(FilterVcan)}

Devices == 1..MaxPorts

\* the port with the given device, hardware id and location
PortInfo(d, h, l) == [device |-> d, hwid |-> h, location |-> l]

\* what comports() can return: n ports with distinct devices, in any order
PortLists(n) ==
    {[i \in 1..n |-> PortInfo(d[i], h[i], l[i])] :
        d \in {f \in [1..n -> Devices] : \A i, j \in 1..n : i # j => f[i] # f[j]},
        h \in [1..n -> Hwids],
        l \in [1..n -> Locations]}

\* the enumerations main() is run against
PortK800(d, loc) == PortInfo(d, HwidK800, loc)
PortOther(d, loc) == PortInfo(d, HwidOther, loc)
MainPortLists ==
    { <<PortK800(1, LocMgmt), PortK800(2, LocVcan)>>,
      <<PortK800(3, LocVcan), PortK800(2, LocAux), PortK800(1, LocMgmt)>>,
      <<PortK800(1, LocHub)>>,
      <<PortK800(1, LocMgmt)>>,
      <<PortK800(2, LocVcan)>>,
      <<PortOther(1, LocMgmt), PortOther(2, LocVcan)>>,
      <<>> }

\* the values given for -b (or written into DEFAULT_BITRATE): some of the
\* valid ones and some others
BitRateInputs == {10, 125, 500, 1000} \cup {0, 800, 2000}
ModeInputs == {"s", "r", "None"}
LedInputs == {"off", "on"}

----------------------------------------------------------------------------
(* State *)

VARIABLES
    all_ports,      \* what system_ports.comports() returns
    use_argparse,   \* USE_ARGPARSE
    argv,           \* the command line, or the edited DEFAULT_* values
    mode, bit_rate, is_led, mgmt_port, vcan_port,   \* locals of main
    port_state,     \* the serial.Serial object: "none", "open", "closed"
    bus_state,      \* the can.Bus object: "none", "open", "shutdown"
    number, is_increment,           \* globals of inc_dec_data_string
    led_i, led_status, led_ret,     \* frame of set_led_status
    pc, exit_code,                  \* position in main, exit status (-1: running)
    trace,          \* every call on a device, the clock or stdout, with its outcome
    sent,           \* the can.Message objects transmitted
    yielded,        \* the numbers inc_dec_data_string has formatted
    received,       \* number of frames bus.recv() has returned
    locator_calls,  \* number of calls of get_device_port made by main
    q_dev_id, q_location, q_result  \* one call of get_device_port on its own

env == <<all_ports, use_argparse, argv>>
locals == <<mode, bit_rate, is_led, mgmt_port, vcan_port>>
handles == <<port_state, bus_state>>
counter == <<number, is_increment>>
led == <<led_i, led_status, led_ret>>
ctl == <<pc, exit_code>>
hist == <<sent, yielded, received, locator_calls>>
query == <<q_dev_id, q_location, q_result>>
vars == <<env, locals, handles, counter, led, ctl, trace, hist, query>>

\* outcome of a call: it returns, raises an Exception, or is interrupted
\* by Ctrl+C (KeyboardInterrupt)
IO == {"ok", "error", "interrupt"}
Wait == {"ok", "interrupt"}

Ev(ch, op, data, res) == [ch |-> ch, op |-> op, data |-> data, res |-> res]

\* an exception that no handler of main catches ends the process
Uncaught(o) ==
    /\ pc' = "exited"
    /\ exit_code' = IF o = "interrupt" THEN 130 ELSE 1

\* sys.exit(code)
SysExit(code) ==
    /\ pc' = "exited"
    /\ exit_code' = code

Idle ==
    /\ mode = "unset" /\ bit_rate = 0 /\ is_led = "unset"
    /\ mgmt_port = NoneDev /\ vcan_port = NoneDev
    /\ port_state = "none" /\ bus_state = "none"
    /\ number = 0 /\ is_increment = TRUE
    /\ led_i = 0 /\ led_status = TRUE /\ led_ret = "none"
    /\ exit_code = -1
    /\ trace = <<>> /\ sent = <<>> /\ yielded = <<>> /\ received = 0
    /\ locator_calls = 0

Init ==
    /\ all_ports \in MainPortLists
    /\ use_argparse \in BOOLEAN
    /\ argv \in [mode : ModeInputs, bitrate : BitRateInputs, leds : LedInputs]
    /\ Idle
    /\ pc = "start"
    /\ q_dev_id = MCU_VID_PID /\ q_location = NoneStr /\ q_result = NoneDev

----------------------------------------------------------------------------
(* Start-up: arguments, bit-rate check, port discovery *)

\* lines 137-145 with parse_arguments: argparse rejects a -b value outside
\* choices=valid_bit_rates with exit status 2
ParseArguments ==
    /\ pc = "start"
    /\ IF use_argparse /\ argv.bitrate \notin valid_bit_rates
       THEN /\ SysExit(2)
            /\ trace' = Append(trace, Ev("out", "print", <<"usage: invalid choice">>, "ok"))
            /\ UNCHANGED <<mode, bit_rate, is_led>>
       ELSE /\ mode' = argv.mode
            /\ bit_rate' = argv.bitrate
            /\ is_led' = argv.leds
            /\ pc' = "check_bit_rate"
            /\ UNCHANGED <<exit_code, trace>>
    /\ UNCHANGED <<env, mgmt_port, vcan_port, handles, counter, led, hist, query>>

CheckBitRate ==
    /\ pc = "check_bit_rate"
    /\ IF bit_rate \notin valid_bit_rates
       THEN /\ SysExit(1)
            /\ trace' = Append(trace, Ev("out", "print", <<"Error: Invalid bit_rate.">>, "ok"))
       ELSE /\ pc' = "get_ports"
            /\ UNCHANGED <<exit_code, trace>>
    /\ UNCHANGED <<env, locals, handles, counter, led, hist, query>>

GetPorts ==
    /\ pc = "get_ports"
    /\ mgmt_port' = get_device_port(MCU_VID_PID, SomeStr(FilterMgmt), all_ports)
    /\ vcan_port' = get_device_port(MCU_VID_PID, SomeStr(FilterVcan), all_ports)
    /\ locator_calls' = locator_calls + 2
    /\ pc' = "check_ports"
    /\ UNCHANGED <<env, mode, bit_rate, is_led, handles, counter, led, exit_code,
                   trace, sent, yielded, received, query>>

\* a plausible slip: `and` for `or`
CheckPortsBoth ==
    /\ pc = "check_ports"
    /\ IF ~TruthyDev(mgmt_port) /\ ~TruthyDev(vcan_port)
       THEN /\ SysExit(1)
            /\ trace' = Append(trace, Ev("out", "print", <<"Error: K800 MCU not found.">>, "ok"))
       ELSE /\ pc' = "open_serial"
            /\ UNCHANGED <<exit_code, trace>>
    /\ UNCHANGED <<env, locals, handles, counter, led, hist, query>>

CheckPorts ==
    /\ pc = "check_ports"
    /\ IF ~TruthyDev(mgmt_port) \/ ~TruthyDev(vcan_port)
       THEN /\ SysExit(1)
            /\ trace' = Append(trace, Ev("out", "print", <<"Error: K800 MCU not found.">>, "ok"))
       ELSE /\ pc' = "open_serial"
            /\ UNCHANGED <<exit_code, trace>>
    /\ UNCHANGED <<env, locals, handles, counter, led, hist, query>>

----------------------------------------------------------------------------
(* Calls on the management port and the clock outside the try block:      *)
(* whatever they raise is caught by nothing and ends the process.         *)

MgmtCall(at, op, data, next) ==
    /\ pc = at
    /\ \E o \in IO :
        /\ trace' = Append(trace, Ev("mgmt", op, data, o))
        /\ IF o = "ok" THEN pc' = next /\ exit_code' = exit_code ELSE Uncaught(o)
    /\ UNCHANGED <<env, locals, handles, counter, led, hist, query>>

Sleep(at, seconds, next) ==
    /\ pc = at
    /\ \E o \in Wait :
        /\ trace' = Append(trace, Ev("time", "sleep", seconds, o))
        /\ IF o = "ok" THEN pc' = next /\ exit_code' = exit_code ELSE Uncaught(o)
    /\ UNCHANGED <<env, locals, handles, counter, led, hist, query>>

Settle == <<"0.1">>
CRLF == "\r\n"

OpenSerial ==
    /\ pc = "open_serial"
    /\ \E o \in IO :
        /\ trace' = Append(trace, Ev("mgmt", "open", <<>>, o))
        /\ IF o = "ok"
           THEN port_state' = "open" /\ pc' = "write_nl" /\ exit_code' = exit_code
           ELSE port_state' = port_state /\ Uncaught(o)
    /\ UNCHANGED <<env, locals, bus_state, counter, led, hist, query>>

WriteNewline == MgmtCall("write_nl", "write", <<CRLF>>, "sleep_nl")
SleepNewline == Sleep("sleep_nl", Settle, "read_nl")
ReadTerminal == MgmtCall("read_nl", "read", <<>>, "cfg_mode")

----------------------------------------------------------------------------
(* configure_can(port, 'VCAN0', 'slcan', str(bit_rate)) *)

\* a plausible slip: the two commands in the other order
configure_can_swapped(interface, can_mode, baud) ==
    << <<"set can-baudrate ", interface, " ">> \o baud \o <<CRLF>>,
       <<"set can-mode ", interface, " ">> \o can_mode \o <<CRLF>> >>

\* the two lines configure_can writes, in the order it writes them
configure_can(interface, can_mode, baud) ==
    << <<"set can-mode ", interface, " ">> \o can_mode \o <<CRLF>>,
       <<"set can-baudrate ", interface, " ">> \o baud \o <<CRLF>> >>

ConfigLines == configure_can("VCAN0", <<"slcan">>, ToStr(bit_rate))

ConfigureWriteMode == MgmtCall("cfg_mode", "write", ConfigLines[1], "cfg_mode_sleep")
ConfigureSleepMode == Sleep("cfg_mode_sleep", Settle, "cfg_baud")
ConfigureWriteBaud == MgmtCall("cfg_baud", "write", ConfigLines[2], "cfg_baud_sleep")
ConfigureSleepBaud == Sleep("cfg_baud_sleep", Settle, "cfg_read")
ConfigureRead == MgmtCall("cfg_read", "read", <<>>, "led_on")

----------------------------------------------------------------------------
(* set_led_status(port, is_led, status) *)

LedCommand(i, status) ==
    <<"dio set LED0 ">> \o ToStr(i) \o <<" ">> \o LowerBool(status) \o <<CRLF>>

\* line 173
CallLedOn ==
    /\ pc = "led_on"
    /\ led_status' = TRUE /\ led_ret' = "open_bus" /\ led_i' = 0
    /\ pc' = "led_enter"
    /\ UNCHANGED <<env, locals, handles, counter, exit_code, trace, hist, query>>

\* line 221
CallLedOff ==
    /\ pc = "led_off"
    /\ led_status' = FALSE /\ led_ret' = "shutdown" /\ led_i' = 0
    /\ pc' = "led_enter"
    /\ UNCHANGED <<env, locals, handles, counter, exit_code, trace, hist, query>>

\* lines 96-97; `not port` is false for a Serial object
LedEnter ==
    /\ pc = "led_enter"
    /\ pc' = IF is_led = "off" \/ port_state = "none" THEN led_ret ELSE "led_write"
    /\ UNCHANGED <<env, locals, handles, counter, led, exit_code, trace, hist, query>>

LedWrite == MgmtCall("led_write", "write", LedCommand(led_i, led_status), "led_sleep")

LedSleep ==
    /\ pc = "led_sleep"
    /\ \E o \in Wait :
        /\ trace' = Append(trace, Ev("time", "sleep", Settle, o))
        /\ IF o = "ok"
           THEN /\ led_i' = led_i + 1
                /\ pc' = IF led_i + 1 < LED_COUNT THEN "led_write" ELSE led_ret
                /\ exit_code' = exit_code
           ELSE /\ led_i' = led_i
                /\ Uncaught(o)
    /\ UNCHANGED <<env, locals, handles, counter, led_status, led_ret, hist, query>>

----------------------------------------------------------------------------
(* The CAN session *)

\* line 176
OpenBus ==
    /\ pc = "open_bus"
    /\ \E o \in IO :
        /\ trace' = Append(trace, Ev("can", "open", ToStr(bit_rate * 1000), o))
        /\ IF o = "ok"
           THEN bus_state' = "open" /\ pc' = "init_counter" /\ exit_code' = exit_code
           ELSE bus_state' = bus_state /\ Uncaught(o)
    /\ UNCHANGED <<env, locals, port_state, counter, led, hist, query>>

\* lines 187-189
InitCounter ==
    /\ pc = "init_counter"
    /\ number' = 0
    /\ is_increment' = TRUE
    /\ pc' = "loop"
    /\ UNCHANGED <<env, locals, handles, led, exit_code, trace, hist, query>>

\* a plausible slip: the test against the high bound is left out
inc_dec_data_string_unbounded(n, inc, low, high) ==
    LET dir == IF n = low THEN TRUE ELSE inc
        next == IF dir THEN n + 1 ELSE n - 1
    IN  [number |-> next, is_increment |-> dir, data |-> <<"K800_">> \o ToStr(next)]

\* a plausible slip: the string is formatted before the counter is advanced
inc_dec_data_string_stale(n, inc, low, high) ==
    LET dir == IF n = low THEN TRUE
               ELSE IF n = high THEN FALSE
               ELSE inc
        next == IF dir THEN n + 1 ELSE n - 1
    IN  [number |-> next, is_increment |-> dir, data |-> <<"K800_">> \o ToStr(n)]

\* one call with the globals at (n, inc): the new globals and the string
inc_dec_data_string(n, inc, low, high) ==
    LET dir == IF n = low THEN TRUE
               ELSE IF n = high THEN FALSE
               ELSE inc
        next == IF dir THEN n + 1 ELSE n - 1
    IN  [number |-> next, is_increment |-> dir, data |-> <<"K800_">> \o ToStr(next)]

\* line 201
Message(data) ==
    [arbitration_id |-> ARBITRATION_ID, is_extended_id |-> TRUE, data |-> data]

\* where control goes when a statement of the try block raises
Except(o) == IF o = "error" THEN "except_exception" ELSE "except_interrupt"

\* lines 193-204
LoopSend ==
    /\ pc = "loop"
    /\ mode = "s"
    /\ Len(yielded) < MaxSends
    /\ LET r == inc_dec_data_string(number, is_increment, 0, 9) IN
       \E o \in IO :
        /\ number' = r.number
        /\ is_increment' = r.is_increment
        /\ yielded' = Append(yielded, r.number)
        /\ trace' = Append(trace, Ev("can", "send", r.data, o))
        /\ sent' = IF o = "ok" THEN Append(sent, Message(r.data)) ELSE sent
        /\ pc' = IF o = "ok" THEN "loop_sleep" ELSE Except(o)
    /\ UNCHANGED <<env, locals, handles, led, exit_code, received, locator_calls, query>>

\* lines 207-208
LoopSleep ==
    /\ pc = "loop_sleep"
    /\ \E o \in Wait :
        /\ trace' = Append(trace, Ev("time", "sleep", Settle, o))
        /\ pc' = IF o = "ok" THEN "loop" ELSE Except(o)
    /\ UNCHANGED <<env, locals, handles, counter, led, exit_code, hist, query>>

\* lines 209-212
LoopRecv ==
    /\ pc = "loop"
    /\ mode # "s"
    /\ \E o \in IO :
        /\ o = "ok" => received < MaxRecvs
        /\ trace' = Append(trace, Ev("can", "recv", <<>>, o))
        /\ received' = IF o = "ok" THEN received + 1 ELSE received
        /\ pc' = IF o = "ok" THEN "loop" ELSE Except(o)
    /\ UNCHANGED <<env, locals, handles, counter, led, exit_code, sent, yielded,
                   locator_calls, query>>

UserMessage == Ev("out", "print", <<"Operation terminated by user.">>, "ok")
ErrorMessage == Ev("out", "print", <<"An error occurred: ">>, "ok")

\* lines 213-214
HandleKeyboardInterrupt ==
    /\ pc = "except_interrupt"
    /\ trace' = Append(trace, UserMessage)
    /\ pc' = "finally"
    /\ UNCHANGED <<env, locals, handles, counter, led, exit_code, hist, query>>

\* a plausible slip: the loop is resumed after the error is logged
HandleExceptionRetry ==
    /\ pc = "except_exception"
    /\ trace' = Append(trace, ErrorMessage)
    /\ pc' = "loop"
    /\ UNCHANGED <<env, locals, handles, counter, led, exit_code, hist, query>>

\* lines 215-216
HandleException ==
    /\ pc = "except_exception"
    /\ trace' = Append(trace, ErrorMessage)
    /\ pc' = "finally"
    /\ UNCHANGED <<env, locals, handles, counter, led, exit_code, hist, query>>

----------------------------------------------------------------------------
(* finally: what a statement raises here propagates out of main *)

FinallySleep == Sleep("finally", <<"1">>, "flush_in")
ResetInputBuffer == MgmtCall("flush_in", "reset_input_buffer", <<>>, "flush_out")
ResetOutputBuffer == MgmtCall("flush_out", "reset_output_buffer", <<>>, "led_off")

\* line 222
BusShutdown ==
    /\ pc = "shutdown"
    /\ \E o \in IO :
        /\ trace' = Append(trace, Ev("can", "shutdown", <<>>, o))
        /\ IF o = "ok"
           THEN bus_state' = "shutdown" /\ pc' = "close" /\ exit_code' = exit_code
           ELSE bus_state' = bus_state /\ Uncaught(o)
    /\ UNCHANGED <<env, locals, port_state, counter, led, hist, query>>

\* line 223, and the return of main
PortClose ==
    /\ pc = "close"
    /\ \E o \in IO :
        /\ trace' = Append(trace, Ev("mgmt", "close", <<>>, o))
        /\ IF o = "ok"
           THEN port_state' = "closed" /\ SysExit(0)
           ELSE port_state' = port_state /\ Uncaught(o)
    /\ UNCHANGED <<env, locals, bus_state, counter, led, hist, query>>

Next ==
    \/ ParseArguments \/ CheckBitRate \/ GetPorts \/ CheckPorts
    \/ OpenSerial \/ WriteNewline \/ SleepNewline \/ ReadTerminal
    \/ ConfigureWriteMode \/ ConfigureSleepMode
    \/ ConfigureWriteBaud \/ ConfigureSleepBaud \/ ConfigureRead
    \/ CallLedOn \/ CallLedOff \/ LedEnter \/ LedWrite \/ LedSleep
    \/ OpenBus \/ InitCounter
    \/ LoopSend \/ LoopSleep \/ LoopRecv
    \/ HandleKeyboardInterrupt \/ HandleException
    \/ FinallySleep \/ ResetInputBuffer \/ ResetOutputBuffer
    \/ BusShutdown \/ PortClose

Spec == Init /\ [][Next]_vars

----------------------------------------------------------------------------
(* get_device_port on its own, on every enumeration within the bounds *)

LocatorInit ==
    /\ \E n \in 0..MaxPorts : all_ports \in PortLists(n)
    /\ q_dev_id \in Signatures
    /\ q_location \in LocationArgs
    /\ q_result = NoneDev
    /\ use_argparse = TRUE
    /\ argv = [mode |-> "None", bitrate |-> DEFAULT_BITRATE, leds |-> LED_CHECK]
    /\ Idle
    /\ pc = "call"

CallGetDevicePort ==
    /\ pc = "call"
    /\ q_result' = get_device_port(q_dev_id, q_location, all_ports)
    /\ pc' = "returned"
    /\ UNCHANGED <<env, locals, handles, counter, led, exit_code, trace, hist,
                   q_dev_id, q_location>>

LocatorNext == CallGetDevicePort

LocatorSpec == LocatorInit /\ [][LocatorNext]_vars

----------------------------------------------------------------------------
(* Properties *)

Idx == 1..Len(trace)
Exited == pc = "exited"
NoDeviceIO == \A i \in Idx : trace[i].ch = "out"
NothingOpened == port_state = "none" /\ bus_state = "none"

Triangle(i) == LET r == i % 18 IN IF r <= 9 THEN r ELSE 18 - r

\* the counter before the i-th call
Before(i) == IF i = 1 THEN 0 ELSE yielded[i - 1]

\* C2: from 0 and ascending, successive calls of inc_dec_data_string yield
\* 1,2,...,9,8,...,1,0,1,2,...: period 18, steps of exactly 1, the direction
\* flips only at 0 and at 9, and the counter stays within [0,9].
C2_TriangleWave ==
    /\ number \in 0..9
    /\ \A i \in 1..Len(yielded) :
        /\ yielded[i] = Triangle(i)
        /\ yielded[i] \in 0..9
        /\ yielded[i] - Before(i) \in {1, -1}
        /\ i > 18 => yielded[i] = yielded[i - 18]
        /\ (i > 1 /\ yielded[i] - Before(i) # Before(i) - Before(i - 1))
              => Before(i) \in {0, 9}
    /\ Len(yielded) > 0 =>
        /\ number = yielded[Len(yielded)]
        /\ is_increment = (number > Before(Len(yielded)))

C2_Witness ==
    /\ Len(yielded) >= 20
    /\ yielded[9] = 9 /\ yielded[10] = 8
    /\ yielded[18] = 0 /\ yielded[19] = 1 /\ yielded[20] = 2

\* the payload K800_<d> for a digit d
Payload(d) == <<"K800_", Digit(d)>>

\* C3 as claimed: the first frame transmitted carries K800_0, the next
\* K800_1, and so on; every frame has the extended id 0x123.
C3_FirstPayloadIsZero ==
    \A i \in 1..Len(sent) :
        /\ sent[i].data = Payload(Triangle(i - 1))
        /\ sent[i].arbitration_id = 1 * 256 + 2 * 16 + 3
        /\ sent[i].is_extended_id

\* C3, amended: the payloads transmitted are K800_1, ..., K800_9, K800_8,
\* ..., K800_0, K800_1, ...: the first frame carries K800_1; every frame
\* has the extended id 0x123.
C3_PayloadSequence ==
    \A i \in 1..Len(sent) :
        /\ sent[i].data = Payload(Triangle(i))
        /\ sent[i].arbitration_id = 1 * 256 + 2 * 16 + 3
        /\ sent[i].is_extended_id

C3_Witness ==
    /\ Len(sent) >= 19
    /\ sent[1].data = <<"K800_", "1">>
    /\ sent[10].data = <<"K800_", "8">>
    /\ sent[18].data = <<"K800_", "0">>
    /\ sent[19].data = <<"K800_", "1">>

\* the events of the trace, by kind
Ok(e) == e.res = "ok"
IsSleep(e, seconds) == e.ch = "time" /\ e.op = "sleep" /\ e.data = seconds
IsWrite(e, line) == e.ch = "mgmt" /\ e.op = "write" /\ e.data = line
IsMgmt(e, op) == e.ch = "mgmt" /\ e.op = op
IsCan(e, op) == e.ch = "can" /\ e.op = op
IsLoopIO(e) == IsCan(e, "send") \/ IsCan(e, "recv")
IsHandler(e) == e = UserMessage \/ e = ErrorMessage

\* the place in the trace where an except clause was entered (0: nowhere)
LoopEnd == IF \E i \in Idx : IsHandler(trace[i])
           THEN CHOOSE i \in Idx : IsHandler(trace[i])
           ELSE 0

\* 'dio set LED0 <i> true|false\r\n'
DioSet(i, word) == <<"dio set LED0 ", Digit(i), " ", word, CRLF>>
IsDioSet(e) == e.ch = "mgmt" /\ e.op = "write" /\ e.data[1] = "dio set LED0 "

\* the teardown steps, each completed, in the order claimed
LedsOff ==
    IF is_led = "on"
    THEN [k \in 1..8 |->
            IF k % 2 = 1
            THEN Ev("mgmt", "write", DioSet((k - 1) \div 2, "false"), "ok")
            ELSE Ev("time", "sleep", <<"0.1">>, "ok")]
    ELSE <<>>

FullTeardown ==
    << Ev("time", "sleep", <<"1">>, "ok"),
       Ev("mgmt", "reset_input_buffer", <<>>, "ok"),
       Ev("mgmt", "reset_output_buffer", <<>>, "ok") >>
    \o LedsOff
    \o << Ev("can", "shutdown", <<>>, "ok"),
          Ev("mgmt", "close", <<>>, "ok") >>

\* C4: whenever the send or receive loop has terminated, by interrupt or by
\* an error of a send or receive, teardown runs flush, LEDs off (if
\* enabled), CAN shutdown, management close in this order, and afterwards
\* both channels are closed.
C4_TeardownClosesBoth ==
    (Exited /\ LoopEnd > 0) =>
        /\ SubSeq(trace, LoopEnd + 1, Len(trace)) = FullTeardown
        /\ port_state = "closed"
        /\ bus_state = "shutdown"

\* C5: no handle is leaked on any exit path: when the process has ended, a
\* management channel that was opened is closed and a CAN channel that was
\* opened is shut down.
C5_NoHandleLeaked ==
    Exited => port_state # "open" /\ bus_state # "open"

\* the lines written to the management channel that are 'dio set' commands
\* with the given word, in the order written
RECURSIVE DioLines(_, _)
DioLines(t, word) ==
    IF t = <<>> THEN <<>>
    ELSE IF IsDioSet(Head(t)) /\ Ok(Head(t)) /\ Head(t).data[4] = word
         THEN <<Head(t).data>> \o DioLines(Tail(t), word)
         ELSE DioLines(Tail(t), word)

FourDioSets(word) == [i \in 1..4 |-> DioSet(i - 1, word)]

\* C6: in a send session with the LED check on, exactly the 4 commands
\* 'dio set LED0 <i> true', i = 0..3, are written before the first frame is
\* transmitted, and exactly the 4 commands 'dio set LED0 <i> false' after
\* the loop has terminated, with no frame transmitted after them; with the
\* LED check off no 'dio set' command is written.
C6_LedCommands ==
    /\ (mode = "s" /\ is_led = "on" /\ \E i \in Idx : IsCan(trace[i], "send")) =>
        LET first == CHOOSE i \in Idx :
                        /\ IsCan(trace[i], "send")
                        /\ \A j \in 1..(i - 1) : ~IsCan(trace[j], "send")
        IN  DioLines(SubSeq(trace, 1, first), "true") = FourDioSets("true")
    /\ (mode = "s" /\ is_led = "on" /\ Exited /\ LoopEnd > 0) =>
        /\ DioLines(trace, "true") = FourDioSets("true")
        /\ DioLines(SubSeq(trace, LoopEnd, Len(trace)), "false") = FourDioSets("false")
        /\ DioLines(SubSeq(trace, 1, LoopEnd), "false") = <<>>
        /\ \A i \in Idx : IsCan(trace[i], "send") => i < LoopEnd
    /\ is_led = "off" => \A i \in Idx : ~IsDioSet(trace[i])

\* str(bit_rate) for the bit-rates of the script
RateText ==
    CASE bit_rate = 10 -> <<"1", "0">>
      [] bit_rate = 20 -> <<"2", "0">>
      [] bit_rate = 50 -> <<"5", "0">>
      [] bit_rate = 100 -> <<"1", "0", "0">>
      [] bit_rate = 125 -> <<"1", "2", "5">>
      [] bit_rate = 250 -> <<"2", "5", "0">>
      [] bit_rate = 500 -> <<"5", "0", "0">>
      [] bit_rate = 750 -> <<"7", "5", "0">>
      [] bit_rate = 1000 -> <<"1", "0", "0", "0">>
      [] OTHER -> <<"?">>

ModeLine == <<"set can-mode ", "VCAN0", " ", "slcan", CRLF>>
BaudLine == <<"set can-baudrate ", "VCAN0", " ">> \o RateText \o <<CRLF>>
IsModeLine(e) == e.ch = "mgmt" /\ e.op = "write" /\ e.data[1] = "set can-mode "
IsBaudLine(e) == e.ch = "mgmt" /\ e.op = "write" /\ e.data[1] = "set can-baudrate "

\* both commands written and both settle delays elapsed, before place k
Configured(k) ==
    \E j \in Idx :
        /\ j + 3 < k
        /\ IsWrite(trace[j], ModeLine) /\ Ok(trace[j])
        /\ IsSleep(trace[j + 1], <<"0.1">>) /\ Ok(trace[j + 1])
        /\ IsWrite(trace[j + 2], BaudLine) /\ Ok(trace[j + 2])
        /\ IsSleep(trace[j + 3], <<"0.1">>) /\ Ok(trace[j + 3])

\* C7: 'set can-mode VCAN0 slcan' is written strictly before
\* 'set can-baudrate VCAN0 <rate>', each write is followed by its settle
\* delay before the next step, and the CAN channel is never opened before
\* both commands are written and both delays have elapsed.
C7_ConfigureBeforeOpen ==
    /\ \A i \in Idx : IsBaudLine(trace[i]) =>
        /\ trace[i].data = BaudLine
        /\ \E j \in 1..(i - 2) :
            /\ IsWrite(trace[j], ModeLine) /\ Ok(trace[j])
            /\ IsSleep(trace[j + 1], <<"0.1">>) /\ Ok(trace[j + 1])
    /\ \A i \in Idx : IsModeLine(trace[i]) => trace[i].data = ModeLine
    /\ \A i \in Idx :
        ((IsModeLine(trace[i]) \/ IsBaudLine(trace[i])) /\ Ok(trace[i]) /\ i < Len(trace))
            => IsSleep(trace[i + 1], <<"0.1">>)
    /\ \A k \in Idx : trace[k].ch = "can" => Configured(k)
    /\ bus_state # "none" => Configured(Len(trace) + 1)

C7_Witness ==
    /\ bus_state = "open"
    /\ bit_rate = 500
    /\ \E i \in Idx : IsWrite(trace[i], <<"set can-baudrate ", "VCAN0", " ", "5", "0", "0", CRLF>>)
    /\ \E i \in Idx : IsCan(trace[i], "send") /\ Ok(trace[i])

\* C10: an Exception raised by a send or a receive of the loop ends the
\* session and is never retried: no send or receive follows it, the error
\* is logged, and the next step is the first step of teardown; and in
\* receive mode no frame is written to the CAN channel.
C10_LoopErrorEndsSession ==
    /\ \A i \in Idx : (IsLoopIO(trace[i]) /\ trace[i].res = "error") =>
        /\ \A j \in Idx : j > i => ~IsLoopIO(trace[j])
        /\ IF i = Len(trace) THEN pc = "except_exception"
           ELSE trace[i + 1] = ErrorMessage
        /\ i + 1 = Len(trace) => pc = "finally"
        /\ i + 1 < Len(trace) => IsSleep(trace[i + 2], <<"1">>)
    /\ mode # "s" =>
        /\ sent = <<>>
        /\ \A i \in Idx : ~IsCan(trace[i], "send")

C10_Witness ==
    /\ Exited /\ exit_code = 0
    /\ mode = "s"
    /\ Len(sent) = 2
    /\ \E i \in Idx : IsCan(trace[i], "send") /\ trace[i].res = "error"
    /\ port_state = "closed" /\ bus_state = "shutdown"

\* the ports an enumeration holds that match a signature and a filter
Matching(ports, dev_id, filter) ==
    {i \in 1..Len(ports) :
        Contains(ports[i].hwid, dev_id) /\ Contains(ports[i].location, filter)}

\* the device of the port of M that comes first in sorted order
FirstDevice(ports, M) ==
    CHOOSE d \in {ports[i].device : i \in M} :
        \A i \in M : d <= ports[i].device

\* C8: with a non-empty location filter get_device_port returns the device
\* of the first port, in sorted order, whose hardware id contains the
\* signature and whose location contains the filter, and None when no port
\* matches both.
C8_LocatorWithFilter ==
    (pc = "returned" /\ q_location.some /\ q_location.v # <<>>) =>
        LET M == Matching(all_ports, q_dev_id, q_location.v) IN
        IF M = {} THEN q_result = NoneDev
        ELSE q_result = SomeDev(FirstDevice(all_ports, M))

C8_Witness ==
    /\ pc = "returned"
    /\ q_location = SomeStr(FilterVcan)
    /\ Cardinality(Matching(all_ports, q_dev_id, <<>>)) = 3
    /\ Matching(all_ports, q_dev_id, FilterVcan) = {1}
    /\ all_ports[1].device = 3
    /\ q_result = SomeDev(3)

\* C9: without a location filter get_device_port returns the device of the
\* first port, in sorted order, whose hardware id contains the signature,
\* and None only when no port's hardware id contains it.
C9_LocatorWithoutFilter ==
    (pc = "returned" /\ ~q_location.some) =>
        LET M == Matching(all_ports, q_dev_id, <<>>) IN
        IF M = {} THEN q_result = NoneDev
        ELSE q_result = SomeDev(FirstDevice(all_ports, M))

====
